---- MODULE Spec2Model ----
(***************************************************************************)
(* Freelance-Finance dashboard (src/unnamed/part_000): the reporting chart *)
(* (updateChart, fetchChartData, processChartData, renderChart), the AI    *)
(* summary (generateAISummary), the global summary (updateGlobalSummary)   *)
(* and the transaction list's pagination controller (updateTotalPages,     *)
(* fetchTransactionsForPage, add/delete/updateTransaction and the click    *)
(* handlers), as state machines over a Firestore collection.               *)
(*                                                                         *)
(* A JS Date is modelled by its UTC calendar day, counted from 1970-01-01: *)
(* every Date the program builds is at 12:00Z (createTimezoneSafeDate) or  *)
(* at 00:00Z (Date.UTC), the loop of processChartData compares two 12:00Z  *)
(* values, and every other use reads UTC date fields only.  Amounts are    *)
(* whole numbers, on which the double additions of the source are exact.   *)
(***************************************************************************)
EXTENDS Integers, Sequences, FiniteSets, TLC

\* ------------------------------------------------------------------ bounds
\* documents of the collection in a chart run
MaxChartDocs == 2
\* user events (clicks, submits) in a run of the transaction list, and how many
\* of them click a filter button, change the category filter, submit a write
MaxUserEvents == 3
MaxFilterEvents == 1
MaxCategoryEvents == 1
MaxWriteEvents == 1
\* the collection starts with 11, 21, ... documents: 2 .. MaxInitPages pages
MaxInitPages == 3
\* async operations in flight at once
MaxInFlight == 2
\* requests the network or the server rejects in a run
MaxRejects == 1
\* documents of the collection, and changes of the date inputs, in a run of the
\* reports modal with its AI summary
MaxReportDocs == 2
MaxRangeChanges == 1

\* documents of the collection in a run of the summary alone
MaxSummaryDocs == 2

\* ------------------------------------------------------- program constants
TRANSACTIONS_PER_PAGE == 10
\* the rates 0.25 and 0.2, in percent
TAX_RATE == 25
SAVINGS_RATE == 20

\* ------------------------------------------------------------ JS Date (UTC)
\* day number of the proleptic Gregorian date y-m-d (m in 1..12)
DaysFromCivil(y, m, d) ==
  LET yy  == IF m <= 2 THEN y - 1 ELSE y
      era == yy \div 400
      yoe == yy - era * 400
      mp  == IF m > 2 THEN m - 3 ELSE m + 9
      doy == (153 * mp + 2) \div 5 + d - 1
      doe == yoe * 365 + yoe \div 4 - yoe \div 100 + doy
  IN  era * 146097 + doe - 719468

\* <<year, month (1..12), day of month>> of a day number
CivilFromDays(z) ==
  LET zz  == z + 719468
      era == zz \div 146097
      doe == zz - era * 146097
      yoe == (doe - doe \div 1460 + doe \div 36524 - doe \div 146096) \div 365
      doy == doe - (365 * yoe + yoe \div 4 - yoe \div 100)
      mp  == (5 * doy + 2) \div 153
      d   == doy - (153 * mp + 2) \div 5 + 1
      m   == IF mp < 10 THEN mp + 3 ELSE mp - 9
      y   == yoe + era * 400 + (IF m <= 2 THEN 1 ELSE 0)
  IN  <<y, m, d>>

getUTCFullYear(date) == CivilFromDays(date)[1]
\* 0-based, as in JS
getUTCMonth(date) == CivilFromDays(date)[2] - 1
getUTCDate(date) == CivilFromDays(date)[3]
\* 0 = Sunday; 1970-01-01 was a Thursday
getUTCDay(date) == (date + 4) % 7

\* Date.UTC(year, month, day) and the set* methods: month (0-based) and day
\* overflow into the following months
MakeDate(year, month, day) ==
  DaysFromCivil(year + month \div 12, (month % 12) + 1, 1) + day - 1

setUTCDate(date, day) == MakeDate(getUTCFullYear(date), getUTCMonth(date), day)
setUTCMonth(date, month) == MakeDate(getUTCFullYear(date), month, getUTCDate(date))
setUTCFullYear(date, year) == MakeDate(year, getUTCMonth(date), getUTCDate(date))

\* date.toISOString().split("T")[0]: "YYYY-MM-DD", as its three zero-padded
\* fields; such strings order as the tuples do
toISODate(date) == CivilFromDays(date)

\* new Date(dateString + "T12:00:00Z")
createTimezoneSafeDate(dateString) ==
  MakeDate(dateString[1], dateString[2] - 1, dateString[3])

getStartOfWeek(date) == setUTCDate(date, getUTCDate(date) - getUTCDay(date))
getStartOfMonth(date) == MakeDate(getUTCFullYear(date), getUTCMonth(date), 1)
getStartOfQuarter(date) ==
  MakeDate(getUTCFullYear(date), (getUTCMonth(date) \div 3) * 3, 1)
getStartOfYear(date) == MakeDate(getUTCFullYear(date), 0, 1)

\* the order of "YYYY-MM-DD" strings under Array.prototype.sort()
KeyLess(a, b) ==
  \/ a[1] < b[1]
  \/ a[1] = b[1] /\ a[2] < b[2]
  \/ a[1] = b[1] /\ a[2] = b[2] /\ a[3] < b[3]

RECURSIVE SortKeys(_)
SortKeys(S) ==
  IF S = {} THEN <<>>
  ELSE LET k == CHOOSE x \in S : \A y \in S : y = x \/ KeyLess(x, y)
       IN  <<k>> \o SortKeys(S \ {k})

RECURSIVE SumSeq(_)
SumSeq(s) == IF s = <<>> THEN 0 ELSE Head(s) + SumSeq(Tail(s))

\* ------------------------------------------------------------------- state
VARIABLES
  db,               \* the user's transactions collection on the server
  serverTime,       \* the server clock that stamps createdAt
  transactions,     \* the page of transactions on display
  currentPage,
  totalPages,
  isFetching,
  pageCursors,      \* JS array: index 0 is pageCursors[1] here
  currentFilter,
  ops,              \* async operations suspended at an await
  paginationUI,     \* what updatePaginationUI last wrote to the DOM
  summaryUI,        \* the totals updateGlobalSummary last displayed
  userEvents,       \* user events handled so far
  rejects,          \* requests rejected so far
  startDateInput,   \* the report's range, "YYYY-MM-DD" fields
  endDateInput,
  chartPc,          \* what updateChart did last
  rawData,          \* what fetchChartData returned to the last render
  transactionsChart,\* what renderChart drew
  chartOps,         \* updateChart invocations suspended at fetchChartData
  aiOps,            \* generateAISummary invocations suspended at an await
  aiSummaryContent, \* the element's textContent and its "loading" class
  aiInvocations,    \* calls of generateAISummary so far
  aiRequests,       \* requests sent to the text-generation endpoint so far
  GEMINI_API_KEY,   \* import.meta.env.VITE_GEMINI_API_KEY, "" when not set
  rangeChanges      \* change events of the two date inputs so far

pageVars == <<transactions, currentPage, totalPages, isFetching, pageCursors,
              currentFilter, ops, paginationUI, summaryUI, userEvents, rejects>>
chartVars == <<startDateInput, endDateInput, chartPc, rawData, transactionsChart,
               chartOps, aiOps, aiSummaryContent, aiInvocations, aiRequests,
               GEMINI_API_KEY, rangeChanges>>
vars == <<db, serverTime, transactions, currentPage, totalPages, isFetching,
          pageCursors, currentFilter, ops, paginationUI, summaryUI, userEvents,
          rejects, startDateInput,
          endDateInput, chartPc, rawData, transactionsChart, chartOps, aiOps,
          aiSummaryContent, aiInvocations, aiRequests, GEMINI_API_KEY,
          rangeChanges>>

\* JS null / undefined
Null == "null"
Undefined == "undefined"

\* pageCursors holds null, undefined (a hole) or a QueryDocumentSnapshot: the
\* document as read, the server time of the read and the filter of the query
\* that returned it
NoSnapshot(tag) ==
  [tag |-> tag,
   doc |-> [id |-> 0, date |-> 0, createdAt |-> 0, type |-> Null, category |-> Null,
            amount |-> 0],
   readTime |-> 0, filter |-> [type |-> "all", category |-> Undefined]]
NullCursor == NoSnapshot(Null)
UndefinedCursor == NoSnapshot(Undefined)
\* if (cursor)
Truthy(cursor) == cursor.tag = "doc"

\* ------------------------------------------------------------- chart logic
\* fetchChartData's query: date >= start 12:00Z, date <= end 23:59:59Z,
\* orderBy date asc (ties by document id)
RECURSIVE OrderByDateAsc(_)
OrderByDateAsc(S) ==
  IF S = {} THEN <<>>
  ELSE LET t == CHOOSE x \in S : \A y \in S :
                  x.date < y.date \/ (x.date = y.date /\ x.id <= y.id)
       IN  <<t>> \o OrderByDateAsc(S \ {t})

fetchChartData(docs, startDate, endDate) ==
  OrderByDateAsc({t \in docs : /\ t.date >= createTimezoneSafeDate(startDate)
                               /\ t.date <= createTimezoneSafeDate(endDate)})

aggregationTypeFor_quarterly(dayCount) ==
  IF dayCount > 365 * 3 THEN "yearly"
  ELSE IF dayCount > 730 THEN "quarterly"
  ELSE IF dayCount > 180 THEN "monthly"
  ELSE IF dayCount > 45 THEN "weekly"
  ELSE "daily"

\* the if/else-if chain of processChartData on the inclusive day count
aggregationTypeFor(dayCount) ==
  IF dayCount > 365 * 2 THEN "yearly"
  ELSE IF dayCount > 730 THEN "quarterly"
  ELSE IF dayCount > 180 THEN "monthly"
  ELSE IF dayCount > 45 THEN "weekly"
  ELSE "daily"

\* the switch that normalises a date to the start of its bucket
bucketKeyDate(aggregationType, date) ==
  CASE aggregationType = "yearly" -> getStartOfYear(date)
    [] aggregationType = "quarterly" -> getStartOfQuarter(date)
    [] aggregationType = "monthly" -> getStartOfMonth(date)
    [] aggregationType = "weekly" -> getStartOfWeek(date)
    [] OTHER -> date

\* the step of the seeding loop
advanceDate(aggregationType, currentDate) ==
  CASE aggregationType = "yearly" ->
         setUTCFullYear(currentDate, getUTCFullYear(currentDate) + 1)
    [] aggregationType = "quarterly" ->
         setUTCMonth(currentDate, getUTCMonth(currentDate) + 3)
    [] aggregationType = "monthly" ->
         setUTCMonth(currentDate, getUTCMonth(currentDate) + 1)
    [] aggregationType = "weekly" ->
         setUTCDate(currentDate, getUTCDate(currentDate) + 7)
    [] OTHER -> setUTCDate(currentDate, getUTCDate(currentDate) + 1)

RECURSIVE seedKeys_exclusive(_, _, _)
seedKeys_exclusive(aggregationType, currentDate, end) ==
  IF currentDate < end
  THEN {toISODate(bucketKeyDate(aggregationType, currentDate))}
         \cup seedKeys_exclusive(aggregationType,
                                 advanceDate(aggregationType, currentDate), end)
  ELSE {}

\* while (currentDate <= end): the keys seeded with {income: 0, expense: 0}
RECURSIVE seedKeys(_, _, _)
seedKeys(aggregationType, currentDate, end) ==
  IF currentDate <= end
  THEN {toISODate(bucketKeyDate(aggregationType, currentDate))}
         \cup seedKeys(aggregationType, advanceDate(aggregationType, currentDate), end)
  ELSE {}

\* data.forEach: a transaction adds to the bucket of its key, if there is one
RECURSIVE accumulate(_, _, _)
accumulate(groupedData, aggregationType, data) ==
  IF data = <<>> THEN groupedData
  ELSE LET t == Head(data)
           keyString == toISODate(bucketKeyDate(aggregationType, t.date))
           g == IF keyString \in DOMAIN groupedData
                THEN IF t.type = "income"
                     THEN [groupedData EXCEPT ![keyString].income = @ + t.amount]
                     ELSE [groupedData EXCEPT ![keyString].expense = @ + t.amount]
                ELSE groupedData
       IN  accumulate(g, aggregationType, Tail(data))

\* the label of a bucket: the date fields toLocaleDateString shows (in a
\* time zone where 12:00Z falls on the same calendar day)
chartLabel(aggregationType, date) ==
  CASE aggregationType = "yearly" -> <<getUTCFullYear(date)>>
    [] aggregationType = "quarterly" ->
         <<getUTCMonth(date) \div 3 + 1, getUTCFullYear(date)>>
    [] aggregationType = "monthly" -> <<getUTCMonth(date) + 1, getUTCFullYear(date)>>
    [] OTHER -> <<getUTCMonth(date) + 1, getUTCDate(date)>>

\* the tooltip title: the first and the last day it names
chartTooltip(aggregationType, date) ==
  CASE aggregationType = "yearly" ->
         <<date, setUTCDate(setUTCFullYear(date, getUTCFullYear(date) + 1), 0)>>
    [] aggregationType = "quarterly" ->
         <<date, setUTCDate(setUTCMonth(date, getUTCMonth(date) + 3), 0)>>
    [] aggregationType = "monthly" -> <<date, date>>
    [] aggregationType = "weekly" -> <<date, setUTCDate(date, getUTCDate(date) + 6)>>
    [] OTHER -> <<date, date>>

processChartData(data, startDateStr, endDateStr) ==
  LET start == createTimezoneSafeDate(startDateStr)
      end == createTimezoneSafeDate(endDateStr)
      dayCount == (end - start) + 1
      aggregationType == aggregationTypeFor(dayCount)
      seeded == seedKeys(aggregationType, start, end)
      groupedData == accumulate([k \in seeded |-> [income |-> 0, expense |-> 0]],
                                aggregationType, data)
      sortedKeys == SortKeys(seeded)
      n == Len(sortedKeys)
  IN  [aggregationType |-> aggregationType,
       sortedKeys |-> sortedKeys,
       labels |-> [i \in 1..n |->
          chartLabel(aggregationType, createTimezoneSafeDate(sortedKeys[i]))],
       tooltipTitles |-> [i \in 1..n |->
          chartTooltip(aggregationType, createTimezoneSafeDate(sortedKeys[i]))],
       incomeData |-> [i \in 1..n |-> groupedData[sortedKeys[i]].income],
       expenseData |-> [i \in 1..n |-> groupedData[sortedKeys[i]].expense]]

\* -------------------------------------------------------- the query layer
\* the where() constraints buildQuery derives from a filter
Matches(t, filter) ==
  IF filter.type = "income" THEN t.type = "income"
  ELSE IF filter.type = "expense"
       THEN /\ t.type = "expense"
            /\ (filter.category \notin {Undefined, "all"} => t.category = filter.category)
       ELSE TRUE

\* orderBy("date", "desc"), orderBy("createdAt", "desc"), then the document id
Before(a, b) ==
  \/ a.date > b.date
  \/ a.date = b.date /\ a.createdAt > b.createdAt
  \/ a.date = b.date /\ a.createdAt = b.createdAt /\ a.id > b.id

\* the documents of S in query order
Min(a, b) == IF a <= b THEN a ELSE b

\* the first n documents of S in query order
Listing(S, n) ==
  LET rank == [t \in S |-> Cardinality({u \in S : Before(u, t)})]
  IN  [i \in 1..Min(n, Cardinality(S)) |-> CHOOSE t \in S : rank[t] = i - 1]

\* query(buildQuery(), [startAfter(cursor),] limit(n)) evaluated on docs; a
\* cursor is a document snapshot and stands for the position of its field values
runQuery(docs, filter, cursor, n) ==
  LET S == {t \in docs : /\ Matches(t, filter)
                         /\ (Truthy(cursor) => Before(cursor.doc, t))}
  IN  Listing(S, n)

\* getCountFromServer(buildQuery())
countQuery(docs, filter) == Cardinality({t \in docs : Matches(t, filter)})

\* Math.ceil(count / TRANSACTIONS_PER_PAGE) || 1
pagesFor(count) ==
  LET c == (count + TRANSACTIONS_PER_PAGE - 1) \div TRANSACTIONS_PER_PAGE
  IN  IF c = 0 THEN 1 ELSE c

\* pageCursors[i] of the JS array (i from 0); a hole reads undefined
CursorAt(cursors, i) ==
  IF i + 1 \in DOMAIN cursors THEN cursors[i + 1] ELSE UndefinedCursor

\* pageCursors[i] = c, which lengthens the array over holes when i is past its end
SetCursor(cursors, i, c) ==
  [k \in 1..(IF i + 1 > Len(cursors) THEN i + 1 ELSE Len(cursors)) |->
     IF k = i + 1 THEN c ELSE IF k <= Len(cursors) THEN cursors[k]
                              ELSE UndefinedCursor]

Snapshot(t, filter) ==
  [tag |-> "doc", doc |-> t, readTime |-> serverTime, filter |-> filter]

\* docs[docs.length - 1] of a query result, undefined when it is empty
lastDocOf(docs, filter) ==
  IF docs = <<>> THEN UndefinedCursor ELSE Snapshot(docs[Len(docs)], filter)

\* ------------------------------------------------- the transaction list
AllFilter == [type |-> "all", category |-> Undefined]

\* an async operation suspended at an await: its kind (the handler that started
\* it), the await it stands at, and its locals.  pre and alone record, for the
\* properties, the list state at the user event that started it and whether no
\* other event or operation has run beside it; writeTime is the server time of
\* its own write
NewOp(kind, arg) ==
  [id |-> CHOOSE i \in 0..MaxInFlight : \A o \in ops : o.id # i, kind |-> kind, pc |-> "write", filter |-> AllFilter,
   cursor |-> NullCursor, page |-> 0, oldCursors |-> <<>>, arg |-> arg,
   writeTime |-> 0, alone |-> (ops = {}),
   pre |-> [transactions |-> transactions, currentPage |-> currentPage,
            totalPages |-> totalPages, pageCursors |-> pageCursors]]

NoArg == [id |-> 0, date |-> 0, createdAt |-> 0, type |-> Null, category |-> Null,
          amount |-> 0]

\* the operations already in flight when a user event arrives
Beside(S) == {[o EXCEPT !.alone = FALSE] : o \in S}

RECURSIVE SumAmounts(_)
SumAmounts(S) ==
  IF S = {} THEN 0
  ELSE LET t == CHOOSE x \in S : TRUE IN t.amount + SumAmounts(S \ {t})

\* fetchTransactionsForPage(page) up to its await, called by operation o with
\* the cursor array as it stands; rest are the other operations
mayStartFetch_always == TRUE

\* if (isFetching) return;
mayStartFetch == ~isFetching

CallFetch(rest, o, page, cursors) ==
  IF mayStartFetch
  THEN /\ isFetching' = TRUE
       /\ ops' = rest \cup {[o EXCEPT !.pc = "fetch", !.page = page,
                                      !.cursor = CursorAt(cursors, page - 1),
                                      !.filter = currentFilter]}
  ELSE /\ isFetching' = isFetching
       /\ ops' = rest

\* updateTotalPages() up to its await: the query is built from the filter now
AwaitCount(rest, o, filter) ==
  ops' = rest \cup {[o EXCEPT !.pc = "count", !.filter = filter]}

\* updatePaginationUI()
PaginationUIOf(page, total) ==
  [page |-> page, total |-> total, prevDisabled |-> (page = 1),
   nextDisabled |-> (page >= total)]

\* a request rejects
Rejected ==
  /\ rejects < MaxRejects
  /\ rejects' = rejects + 1

\* --- updateGlobalSummary settles; resetAndRefresh / refreshData /
\* deleteTransaction go on to updateTotalPages
AfterSummary(o) ==
  /\ IF o.kind \in {"init", "add"}
     THEN currentPage' = 1 /\ pageCursors' = <<NullCursor>>
     ELSE UNCHANGED <<currentPage, pageCursors>>
  /\ AwaitCount(ops \ {o}, o, currentFilter)
  /\ UNCHANGED <<db, serverTime, transactions, totalPages, isFetching,
                 currentFilter, paginationUI, userEvents, chartVars>>

Max(a, b) == IF a >= b THEN a ELSE b

\* the summary elements before updateGlobalSummary has written them
NoSummary == [balanceClass |-> Null]

recommendedSavings_unfloored(netProfit) == netProfit * SAVINGS_RATE

\* Math.max(0, netProfit * SAVINGS_RATE), in hundredths
recommendedSavingsOf(netProfit) == Max(0, netProfit * SAVINGS_RATE)

\* the figures updateGlobalSummary derives from the two sums and shows, in
\* hundredths of the currency unit (the sums are whole numbers), and the colour
\* class of the safe-to-spend figure
summaryFigures(totalIncome, totalExpenses) ==
  LET netProfit == totalIncome - totalExpenses
      taxToSave == totalIncome * TAX_RATE
      recommendedSavings == recommendedSavingsOf(netProfit)
      availableBalance == 100 * netProfit - taxToSave - recommendedSavings
  IN  [totalIncome |-> 100 * totalIncome,
       totalExpenses |-> 100 * totalExpenses,
       netProfit |-> 100 * netProfit,
       taxToSave |-> taxToSave,
       recommendedSavings |-> recommendedSavings,
       availableBalance |-> availableBalance,
       balanceClass |-> IF availableBalance > 0 THEN "income-color"
                        ELSE IF availableBalance < 0 THEN "expense-color"
                        ELSE "primary-color"]

SummaryResolve(o) ==
  /\ o.pc = "summary"
  /\ rejects' = rejects
  /\ summaryUI' = summaryFigures(SumAmounts({t \in db : t.type = "income"}),
                                 SumAmounts({t \in db : t.type = "expense"}))
  /\ AfterSummary(o)

SummaryReject(o) ==
  /\ o.pc = "summary"
  /\ Rejected
  /\ summaryUI' = summaryUI
  /\ AfterSummary(o)

\* --- deleteTransaction's loop, at index i with the array rebuilt so far
DeleteReplay(rest, o, i, cursors, page) ==
  /\ pageCursors' = cursors
  /\ IF i < page
     THEN /\ ops' = rest \cup {[o EXCEPT !.pc = "replay", !.page = i,
                                         !.cursor = CursorAt(o.oldCursors, i - 1),
                                         !.filter = currentFilter]}
          /\ isFetching' = isFetching
     ELSE CallFetch(rest, o, page, cursors)

pageAfterDelete_first(page, shown, total) ==
  IF page > 1 /\ shown = 1 /\ page > total THEN 1 ELSE page

\* the page deleteTransaction goes on with, once totalPages is recomputed
pageAfterDelete(page, shown, total) ==
  IF page > 1 /\ shown = 1 /\ page > total THEN page - 1 ELSE page

\* --- getCountFromServer settles
AfterCount(o, total) ==
  /\ IF o.kind = "delete"
     THEN LET page == pageAfterDelete(currentPage, Len(transactions), total)
          IN  /\ currentPage' = page
              /\ DeleteReplay(ops \ {o}, [o EXCEPT !.oldCursors = pageCursors],
                              1, <<NullCursor>>, page)
     ELSE /\ UNCHANGED <<currentPage, pageCursors>>
          /\ CallFetch(ops \ {o}, o, currentPage, pageCursors)
  /\ UNCHANGED <<db, serverTime, transactions, currentFilter, paginationUI,
                 summaryUI, userEvents, chartVars>>

CountResolve(o) ==
  /\ o.pc = "count"
  /\ rejects' = rejects
  /\ totalPages' = pagesFor(countQuery(db, o.filter))
  /\ AfterCount(o, totalPages')

CountReject(o) ==
  /\ o.pc = "count"
  /\ Rejected
  /\ totalPages' = totalPages
  /\ AfterCount(o, totalPages)

\* --- a getDocs of deleteTransaction's loop settles
ReplayResolve(o) ==
  /\ o.pc = "replay"
  /\ rejects' = rejects
  /\ LET docs == runQuery(db, o.filter, o.cursor, TRANSACTIONS_PER_PAGE)
         lastDoc == lastDocOf(docs, o.filter)
     IN  IF Truthy(lastDoc)
         THEN DeleteReplay(ops \ {o}, o, o.page + 1,
                           SetCursor(pageCursors, o.page, lastDoc), currentPage)
         ELSE /\ pageCursors' = pageCursors
              /\ CallFetch(ops \ {o}, o, currentPage, pageCursors)
  /\ UNCHANGED <<db, serverTime, transactions, currentPage, totalPages,
                 currentFilter, paginationUI, summaryUI, userEvents, chartVars>>

ReplayReject(o) ==
  /\ o.pc = "replay"
  /\ Rejected
  /\ ops' = ops \ {o}
  /\ UNCHANGED <<db, serverTime, transactions, currentPage, totalPages, isFetching,
                 pageCursors, currentFilter, paginationUI, summaryUI, userEvents,
                 chartVars>>

\* --- the getDocs of fetchTransactionsForPage settles
FetchResolve(o) ==
  /\ o.pc = "fetch"
  /\ rejects' = rejects
  /\ LET docs == runQuery(db, o.filter, o.cursor, TRANSACTIONS_PER_PAGE)
         lastDoc == lastDocOf(docs, o.filter)
     IN  /\ pageCursors' = IF Truthy(lastDoc)
                           THEN SetCursor(pageCursors, o.page, lastDoc)
                           ELSE pageCursors
         /\ transactions' = docs
  /\ paginationUI' = PaginationUIOf(currentPage, totalPages)
  /\ isFetching' = FALSE
  /\ ops' = ops \ {o}
  /\ UNCHANGED <<db, serverTime, currentPage, totalPages, currentFilter,
                 summaryUI, userEvents, chartVars>>

FetchReject(o) ==
  /\ o.pc = "fetch"
  /\ Rejected
  /\ isFetching' = FALSE
  /\ ops' = ops \ {o}
  /\ UNCHANGED <<db, serverTime, transactions, currentPage, totalPages,
                 pageCursors, currentFilter, paginationUI, summaryUI, userEvents,
                 chartVars>>

\* --- addDoc / deleteDoc / updateDoc settles
WriteResolve(o) ==
  /\ o.pc = "write"
  /\ rejects' = rejects
  /\ o.kind = "update" => \E t \in db : t.id = o.arg.id
  /\ serverTime' = serverTime + 1
  /\ db' = CASE o.kind = "add" ->
                  db \cup {[o.arg EXCEPT !.id = serverTime', !.createdAt = serverTime']}
             [] o.kind = "delete" -> {t \in db : t.id # o.arg.id}
             [] OTHER ->
                  {IF t.id = o.arg.id
                   THEN [o.arg EXCEPT !.createdAt = t.createdAt]
                   ELSE t : t \in db}
  /\ ops' = (ops \ {o}) \cup {[o EXCEPT !.pc = "summary", !.writeTime = serverTime']}
  /\ UNCHANGED <<transactions, currentPage, totalPages, isFetching, pageCursors,
                 currentFilter, paginationUI, summaryUI, userEvents, chartVars>>

WriteReject(o) ==
  /\ o.pc = "write"
  /\ Rejected
  /\ ops' = ops \ {o}
  /\ UNCHANGED <<db, serverTime, transactions, currentPage, totalPages, isFetching,
                 pageCursors, currentFilter, paginationUI, summaryUI, userEvents,
                 chartVars>>

\* ------------------------------------------------------------ user events
\* the day of the oldest date the forms are given; the collection's first
\* documents are dated on the days after it, and Today after them all
OldestDate == DaysFromCivil(2024, 1, 1)
Today == OldestDate + 100

\* document i of the initial collection
InitialDoc(i) ==
  [id |-> i, date |-> OldestDate + i, createdAt |-> i,
   type |-> IF i % 2 = 1 THEN "income" ELSE "expense",
   category |-> IF i % 2 = 1 THEN Null ELSE IF i % 20 = 0 THEN "food" ELSE "other",
   amount |-> 100]

InitialSizes == {(p - 1) * TRANSACTIONS_PER_PAGE + 1 : p \in 2..MaxInitPages}

\* what the add form submits (createdAt is the server's)
AddInputs ==
  {[id |-> 0, date |-> Today, createdAt |-> 0, type |-> "income", category |-> Null,
    amount |-> 100],
   [id |-> 0, date |-> OldestDate, createdAt |-> 0, type |-> "expense",
    category |-> "food", amount |-> 100]}

\* what the edit form submits for transaction t: a new date, or the other type
EditInputs(t) ==
  {[t EXCEPT !.date = Today],
   [t EXCEPT !.type = IF t.type = "income" THEN "expense" ELSE "income",
             !.category = IF t.type = "income" THEN "food" ELSE Null]}

\* the row of the list whose buttons are clicked: the last one
Targets == {transactions[i] : i \in {Len(transactions)} \cap DOMAIN transactions}

FilterTypes == {"all", "income", "expense"}
CategoryOptions == {"all", "food"}

UserEvent(kind) ==
  /\ userEvents.all < MaxUserEvents
  /\ kind = "filter" => userEvents.filter < MaxFilterEvents
  /\ kind = "category" => userEvents.category < MaxCategoryEvents
  /\ kind = "write" => userEvents.write < MaxWriteEvents
  /\ Cardinality(ops) < MaxInFlight
  /\ userEvents' = [all |-> userEvents.all + 1,
                    filter |-> userEvents.filter + (IF kind = "filter" THEN 1 ELSE 0),
                    category |-> userEvents.category
                                   + (IF kind = "category" THEN 1 ELSE 0),
                    write |-> userEvents.write + (IF kind = "write" THEN 1 ELSE 0)]
  /\ rejects' = rejects

\* nextPageBtn click
NextPageClick ==
  /\ UserEvent("page")
  /\ ~paginationUI.nextDisabled
  /\ currentPage < totalPages
  /\ currentPage' = currentPage + 1
  /\ CallFetch(Beside(ops), NewOp("page", NoArg),
               currentPage + 1, pageCursors)
  /\ UNCHANGED <<db, serverTime, transactions, totalPages, pageCursors,
                 currentFilter, paginationUI, summaryUI, chartVars>>

\* prevPageBtn click
PrevPageClick ==
  /\ UserEvent("page")
  /\ ~paginationUI.prevDisabled
  /\ currentPage > 1
  /\ currentPage' = currentPage - 1
  /\ CallFetch(Beside(ops), NewOp("page", NoArg),
               currentPage - 1, pageCursors)
  /\ UNCHANGED <<db, serverTime, transactions, totalPages, pageCursors,
                 currentFilter, paginationUI, summaryUI, chartVars>>

\* the filter handlers end in resetAndRefresh()
FilterChanged(filter) ==
  /\ currentFilter' = filter
  /\ currentPage' = 1
  /\ pageCursors' = <<NullCursor>>
  /\ AwaitCount(Beside(ops), NewOp("filter", NoArg), filter)
  /\ UNCHANGED <<db, serverTime, transactions, totalPages, isFetching,
                 paginationUI, summaryUI, chartVars>>

\* mainFilters click on a .filter-btn
FilterClick(type) ==
  /\ UserEvent("filter")
  /\ FilterChanged([type |-> type,
                    category |-> IF type = "expense" THEN "all" ELSE Undefined])

\* categoryFilterDropdown change (the dropdown shows with the expense filter)
CategoryChange(category) ==
  /\ currentFilter.type = "expense"
  /\ category # currentFilter.category
  /\ UserEvent("category")
  /\ FilterChanged([currentFilter EXCEPT !.category = category])

StartWrite(kind, arg) ==
  /\ ops' = Beside(ops) \cup {NewOp(kind, arg)}
  /\ UNCHANGED <<db, serverTime, transactions, currentPage, totalPages, isFetching,
                 pageCursors, currentFilter, paginationUI, summaryUI, chartVars>>

\* transactionForm submit
AddSubmit(data) ==
  /\ UserEvent("write")
  /\ StartWrite("add", data)
\* transactionList click on a .delete-btn, confirmed
DeleteClick(t) ==
  /\ UserEvent("write")
  /\ StartWrite("delete", t)
\* .edit-btn click, then editForm submit
EditSubmit(t, data) ==
  /\ UserEvent("write")
  /\ StartWrite("update", data)

\* ---------------------------------------------------------- the reports modal
\* the texts generateAISummary and updateChart put in aiSummaryContent
GeneratingMessage == "Generating your financial summary..."
MissingKeyMessage == "AI API key is missing. Please check your .env file."
FailureMessage == "Could not generate AI summary at this time."
InvalidRangeMessage == "Please select a valid date range."

\* the expense categories of data in the order Object.keys(expenseBreakdown)
\* lists them: the order in which forEach first met them
RECURSIVE expenseKeys(_, _)
expenseKeys(data, seen) ==
  IF data = <<>> THEN <<>>
  ELSE LET t == Head(data)
       IN  IF t.type = "expense" /\ t.category \notin seen
           THEN <<t.category>> \o expenseKeys(Tail(data), seen \cup {t.category})
           ELSE expenseKeys(Tail(data), seen)

\* expenseBreakdown[category]
expenseBreakdown(data, category) ==
  SumSeq([i \in 1..Len(data) |->
            IF data[i].type = "expense" /\ data[i].category = category
            THEN data[i].amount ELSE 0])

keepsAccumulator_onTie(data, a, b) ==
  a # Null /\ expenseBreakdown(data, a) >= expenseBreakdown(data, b)

\* expenseBreakdown[a] > expenseBreakdown[b], false while a is the initial null
keepsAccumulator(data, a, b) ==
  a # Null /\ expenseBreakdown(data, a) > expenseBreakdown(data, b)

\* Object.keys(expenseBreakdown).reduce((a, b) => ... ? a : b, null)
RECURSIVE reduceLargest(_, _, _)
reduceLargest(data, keys, a) ==
  IF keys = <<>> THEN a
  ELSE reduceLargest(data, Tail(keys),
                     IF keepsAccumulator(data, a, Head(keys)) THEN a ELSE Head(keys))

\* what the prompt embeds
promptOf(data) ==
  LET totalIncome == SumSeq([i \in 1..Len(data) |->
                        IF data[i].type = "income" THEN data[i].amount ELSE 0])
      totalExpenses == SumSeq([i \in 1..Len(data) |->
                        IF data[i].type = "expense" THEN data[i].amount ELSE 0])
      largestExpenseCategory == reduceLargest(data, expenseKeys(data, {}), Null)
  IN  [totalIncome |-> totalIncome,
       totalExpenses |-> totalExpenses,
       netProfit |-> totalIncome - totalExpenses,
       largestExpenseCategory |-> IF largestExpenseCategory = Null THEN "None"
                                  ELSE largestExpenseCategory]

\* generateAISummary(data) up to its first await: without a key it returns at
\* once, with one it sends the request
generateAISummary(data) ==
  /\ aiInvocations' = aiInvocations + 1
  /\ IF GEMINI_API_KEY = ""
     THEN /\ aiSummaryContent' = [textContent |-> MissingKeyMessage,
                                  loading |-> FALSE]
          /\ UNCHANGED <<aiOps, aiRequests>>
     ELSE /\ aiSummaryContent' = [textContent |-> GeneratingMessage,
                                  loading |-> TRUE]
          /\ aiRequests' = aiRequests + 1
          /\ aiOps' = aiOps \cup
               {[id |-> CHOOSE i \in 0..Cardinality(aiOps) :
                          \A o \in aiOps : o.id # i,
                 pc |-> "fetch", rawData |-> data, prompt |-> promptOf(data)]}

\* updateChart() up to its await, with the period filter on "custom": the
\* range is read from the inputs as the call finds them
updateChart(startDateStr, endDateStr) ==
  IF KeyLess(endDateStr, startDateStr)
  THEN /\ chartPc' = "invalid"
       /\ aiSummaryContent' = [textContent |-> InvalidRangeMessage,
                               loading |-> FALSE]
       /\ UNCHANGED chartOps
  ELSE /\ chartPc' = "fetching"
       /\ chartOps' = chartOps \cup
            {[id |-> CHOOSE i \in 0..Cardinality(chartOps) :
                       \A o \in chartOps : o.id # i,
              startDateStr |-> startDateStr, endDateStr |-> endDateStr]}
       /\ UNCHANGED aiSummaryContent

\* openReportsModal(): the inputs hold a range, updateChart() is called
UpdateChart ==
  /\ chartPc = "idle"
  /\ updateChart(startDateInput, endDateInput)
  /\ UNCHANGED <<db, serverTime, pageVars, startDateInput, endDateInput, rawData,
                 transactionsChart, aiOps, aiInvocations, aiRequests,
                 GEMINI_API_KEY, rangeChanges>>

\* the values the user gives the two date inputs
StartDates == {<<2024, 1, 1>>, <<2024, 1, 4>>}
EndDates == {<<2024, 1, 2>>, <<2024, 1, 5>>}

\* a change listener of a date input: the input has its new value when
\* updateChart() runs
RangeChange(startDateStr, endDateStr) ==
  /\ chartPc \notin {"closed", "idle"}
  /\ rangeChanges < MaxRangeChanges
  /\ rangeChanges' = rangeChanges + 1
  /\ startDateInput' = startDateStr
  /\ endDateInput' = endDateStr
  /\ updateChart(startDateStr, endDateStr)
  /\ UNCHANGED <<db, serverTime, pageVars, rawData, transactionsChart, aiOps,
                 aiInvocations, aiRequests, GEMINI_API_KEY>>

\* startDateInput change
StartDateChange(value) ==
  /\ value # startDateInput
  /\ RangeChange(value, endDateInput)

\* endDateInput change
EndDateChange(value) ==
  /\ value # endDateInput
  /\ RangeChange(startDateInput, value)

\* renderChart(processChartData(rawData, ...)) after fetchChartData returned to
\* invocation o, then generateAISummary(rawData), which is not awaited
Render(o, data) ==
  /\ rawData' = data
  /\ transactionsChart' = processChartData(data, o.startDateStr, o.endDateStr)
  /\ chartPc' = "rendered"
  /\ chartOps' = chartOps \ {o}
  /\ generateAISummary(data)
  /\ UNCHANGED <<db, serverTime, pageVars, startDateInput, endDateInput,
                 GEMINI_API_KEY, rangeChanges>>

ChartDataResolve(o) ==
  Render(o, fetchChartData(db, o.startDateStr, o.endDateStr))

\* fetchChartData catches the rejection, alerts and returns []
ChartDataReject(o) ==
  Render(o, <<>>)

\* --- generateAISummary after its awaits
\* the response bodies: JSON whose candidates[0].content.parts[0] has a text,
\* has none, or is not there
AiText == "Your month looks healthy."
AiBodies ==
  {[candidates |-> <<[content |-> [parts |-> <<[text |-> AiText]>>]]>>],
   [candidates |-> <<[content |-> [parts |-> <<[text |-> Undefined]>>]]>>],
   [candidates |-> <<[content |-> [parts |-> <<>>]]>>],
   [candidates |-> <<>>]}

\* result.candidates[0].content.parts[0].text: reading a property of undefined
\* throws, a property that is not there reads undefined
summaryOf(result) ==
  IF result.candidates = <<>> THEN [threw |-> TRUE, text |-> Undefined]
  ELSE IF result.candidates[1].content.parts = <<>>
       THEN [threw |-> TRUE, text |-> Undefined]
       ELSE [threw |-> FALSE, text |-> result.candidates[1].content.parts[1].text]

\* textContent = value: undefined is converted to null, which empties the text
textContentOf(value) == IF value = Undefined THEN "" ELSE value

aiVarsKept == <<db, serverTime, pageVars, startDateInput, endDateInput, chartPc,
                rawData, transactionsChart, chartOps, aiInvocations, aiRequests,
                GEMINI_API_KEY, rangeChanges>>

\* the catch and finally blocks
AiFails(o) ==
  /\ aiSummaryContent' = [textContent |-> FailureMessage, loading |-> FALSE]
  /\ aiOps' = aiOps \ {o}
  /\ UNCHANGED aiVarsKept

\* fetch resolves with a 2xx status: response.json() is awaited
AiFetchOk(o) ==
  /\ o.pc = "fetch"
  /\ aiOps' = (aiOps \ {o}) \cup {[o EXCEPT !.pc = "json"]}
  /\ UNCHANGED aiSummaryContent
  /\ UNCHANGED aiVarsKept

\* fetch resolves with another status: the handler throws
AiFetchNotOk(o) ==
  /\ o.pc = "fetch"
  /\ AiFails(o)

AiFetchReject(o) ==
  /\ o.pc = "fetch"
  /\ AiFails(o)

\* response.json() resolves with a body
AiJsonResolve(o, result) ==
  /\ o.pc = "json"
  /\ IF summaryOf(result).threw
     THEN AiFails(o)
     ELSE /\ aiSummaryContent' = [textContent |-> textContentOf(summaryOf(result).text),
                                  loading |-> FALSE]
          /\ aiOps' = aiOps \ {o}
          /\ UNCHANGED aiVarsKept

\* response.json() rejects: the body is not JSON
AiJsonReject(o) ==
  /\ o.pc = "json"
  /\ AiFails(o)

\* ------------------------------------------------------- specifications
InitList ==
  /\ transactions = <<>>
  /\ currentPage = 1
  /\ totalPages = 1
  /\ isFetching = FALSE
  /\ pageCursors = <<NullCursor>>
  /\ currentFilter = AllFilter
  /\ paginationUI = [page |-> 0, total |-> 0, prevDisabled |-> TRUE,
                     nextDisabled |-> TRUE]
  /\ summaryUI = NoSummary
  /\ userEvents = [all |-> 0, filter |-> 0, category |-> 0, write |-> 0]
  /\ rejects = 0

\* the reports modal before its first updateChart()
InitReports ==
  /\ rawData = <<>>
  /\ transactionsChart = Null
  /\ chartOps = {}
  /\ aiOps = {}
  /\ aiSummaryContent = [textContent |-> "", loading |-> FALSE]
  /\ aiInvocations = 0
  /\ aiRequests = 0
  /\ rangeChanges = 0

\* the initial data load of initializeApp(), at its first await
InitialLoad ==
  [id |-> 0, kind |-> "init", pc |-> "summary", filter |-> AllFilter,
   cursor |-> NullCursor, page |-> 0, oldCursors |-> <<>>, arg |-> NoArg,
   writeTime |-> 0, alone |-> TRUE,
   pre |-> [transactions |-> <<>>, currentPage |-> 1, totalPages |-> 1,
            pageCursors |-> <<NullCursor>>]]

\* initializeApp() stands at its first await, updateGlobalSummary()
Init ==
  /\ \E n \in InitialSizes :
       /\ db = {InitialDoc(i) : i \in 1..n}
       /\ serverTime = n
  /\ InitList
  /\ ops = {InitialLoad}
  /\ startDateInput = Null
  /\ endDateInput = Null
  /\ chartPc = "closed"
  /\ GEMINI_API_KEY = ""
  /\ InitReports

Next ==
  \/ \E o \in ops : SummaryResolve(o)
  \/ \E o \in ops : SummaryReject(o)
  \/ \E o \in ops : CountResolve(o)
  \/ \E o \in ops : CountReject(o)
  \/ \E o \in ops : ReplayResolve(o)
  \/ \E o \in ops : ReplayReject(o)
  \/ \E o \in ops : FetchResolve(o)
  \/ \E o \in ops : FetchReject(o)
  \/ \E o \in ops : WriteResolve(o)
  \/ \E o \in ops : WriteReject(o)
  \/ NextPageClick
  \/ PrevPageClick
  \/ \E type \in FilterTypes : FilterClick(type)
  \/ \E category \in CategoryOptions : CategoryChange(category)
  \/ \E data \in AddInputs : AddSubmit(data)
  \/ \E t \in Targets : DeleteClick(t)
  \/ \E t \in Targets : \E data \in EditInputs(t) : EditSubmit(t, data)

Spec == Init /\ [][Next]_vars

\* the initial load alone, over collections of a few documents of either type
\* and of several amounts
SummaryAmounts == {1, 40, 100, 333}

InitSummary ==
  /\ \E k \in 0..MaxSummaryDocs :
       \E f \in [1..k -> {"income", "expense"} \X SummaryAmounts] :
         db = {[id |-> i, date |-> OldestDate + i, createdAt |-> i,
                type |-> f[i][1],
                category |-> IF f[i][1] = "income" THEN Null ELSE "other",
                amount |-> f[i][2]] : i \in 1..k}
  /\ serverTime = MaxSummaryDocs
  /\ InitList
  /\ ops = {InitialLoad}
  /\ startDateInput = Null
  /\ endDateInput = Null
  /\ chartPc = "closed"
  /\ GEMINI_API_KEY = ""
  /\ InitReports

NextSummary ==
  \/ \E o \in ops : SummaryResolve(o)
  \/ \E o \in ops : SummaryReject(o)
  \/ \E o \in ops : CountResolve(o)
  \/ \E o \in ops : CountReject(o)
  \/ \E o \in ops : FetchResolve(o)
  \/ \E o \in ops : FetchReject(o)

SpecSummary == InitSummary /\ [][NextSummary]_vars

\* the ranges and collections of the chart runs
ChartStarts == {<<2024, 1, 1>>, <<2024, 1, 6>>, <<2024, 1, 31>>, <<2023, 12, 20>>,
                <<2020, 2, 29>>}
ChartDayCounts == {0, 1, 5, 10, 45, 46, 60, 180, 181, 200, 730, 731, 800}
\* the days the documents are dated: around both ends of the range, and the
\* third day
ChartDocDays(start, n) == {start - 1, start + 2, start + n - 1, start + n}

InitChart ==
  /\ \E s \in ChartStarts, n \in ChartDayCounts :
       LET start == createTimezoneSafeDate(s)
           cands == {[date |-> d, type |-> ty] :
                       d \in ChartDocDays(start, n), ty \in {"income", "expense"}}
       IN  /\ startDateInput = s
           /\ endDateInput = toISODate(start + n - 1)
           /\ \E k \in 0..MaxChartDocs : \E f \in [1..k -> cands] :
                db = {[id |-> i, date |-> f[i].date, createdAt |-> i,
                       type |-> f[i].type,
                       category |-> IF f[i].type = "income" THEN Null ELSE "food",
                       amount |-> IF f[i].type = "income" THEN 100 ELSE 40] :
                      i \in 1..k}
  /\ serverTime = 0
  /\ InitList
  /\ ops = {}
  /\ chartPc = "idle"
  /\ GEMINI_API_KEY = ""
  /\ InitReports

NextChart ==
  \/ UpdateChart
  \/ \E o \in chartOps : ChartDataResolve(o)
  \/ \E o \in chartOps : ChartDataReject(o)

SpecChart == InitChart /\ [][NextChart]_vars

\* the reports modal with overlapping updateChart() calls and the AI summary,
\* opened on the range 2024-01-01..2024-01-05, with or without an API key
ReportKinds == {[type |-> "income", category |-> Null, amount |-> 100],
                [type |-> "expense", category |-> "food", amount |-> 40],
                [type |-> "expense", category |-> "other", amount |-> 40],
                [type |-> "expense", category |-> "food", amount |-> 70]}
ReportDocDays == {DaysFromCivil(2024, 1, 1), DaysFromCivil(2024, 1, 4)}

InitReport ==
  /\ \E k \in 0..MaxReportDocs :
       \E f \in [1..k -> ReportDocDays \X ReportKinds] :
         db = {[id |-> i, date |-> f[i][1], createdAt |-> i,
                type |-> f[i][2].type, category |-> f[i][2].category,
                amount |-> f[i][2].amount] : i \in 1..k}
  /\ serverTime = 0
  /\ InitList
  /\ ops = {}
  /\ startDateInput = <<2024, 1, 1>>
  /\ endDateInput = <<2024, 1, 5>>
  /\ chartPc = "idle"
  /\ GEMINI_API_KEY \in {"", "key"}
  /\ InitReports

NextReport ==
  \/ UpdateChart
  \/ \E value \in StartDates : StartDateChange(value)
  \/ \E value \in EndDates : EndDateChange(value)
  \/ \E o \in chartOps : ChartDataResolve(o)
  \/ \E o \in chartOps : ChartDataReject(o)
  \/ \E o \in aiOps : AiFetchOk(o)
  \/ \E o \in aiOps : AiFetchNotOk(o)
  \/ \E o \in aiOps : AiFetchReject(o)
  \/ \E o \in aiOps : \E result \in AiBodies : AiJsonResolve(o, result)
  \/ \E o \in aiOps : AiJsonReject(o)

SpecReport == InitReport /\ [][NextReport]_vars

\* =================================================================== properties
\* what the properties read off a chart run
RangeStart == createTimezoneSafeDate(startDateInput)
RangeEnd == createTimezoneSafeDate(endDateInput)
InclusiveDays == RangeEnd - RangeStart + 1
AmountsOf(data, type) ==
  SumSeq([i \in 1..Len(data) |-> IF data[i].type = type THEN data[i].amount ELSE 0])

\* C1: once the chart is rendered for a range, the income series sums to the
\* income amounts of the in-range transactions fetchChartData returned, and the
\* expense series to their expense amounts: no in-range transaction is left
\* out of every bucket.
C1_Conservation ==
  chartPc = "rendered" =>
    /\ \A i \in 1..Len(rawData) :
         rawData[i].date >= RangeStart /\ rawData[i].date <= RangeEnd
    /\ SumSeq(transactionsChart.incomeData) = AmountsOf(rawData, "income")
    /\ SumSeq(transactionsChart.expenseData) = AmountsOf(rawData, "expense")

\* C2: the granularity is a step function of the inclusive day count: more than
\* 730 days yearly, else more than 180 monthly, else more than 45 weekly, else
\* daily (10 daily, 60 weekly, 200 monthly, 800 yearly), and never quarterly.
C2_GranularitySteps ==
  chartPc = "rendered" =>
    LET n == InclusiveDays
        g == transactionsChart.aggregationType
    IN  /\ g = IF n > 730 THEN "yearly"
               ELSE IF n > 180 THEN "monthly"
               ELSE IF n > 45 THEN "weekly" ELSE "daily"
        /\ g # "quarterly"
        /\ n = 10 => g = "daily"
        /\ n = 60 => g = "weekly"
        /\ n = 200 => g = "monthly"
        /\ n = 800 => g = "yearly"

\* a range one day over the yearly threshold, rendered by year
C2_Witness ==
  /\ chartPc = "rendered"
  /\ InclusiveDays = 731
  /\ transactionsChart.aggregationType = "yearly"

\* C3: for a range of at most 45 inclusive days the chart has exactly one
\* bucket per calendar day of the range, in strictly increasing date order,
\* and a bucket on whose day no fetched transaction falls has income 0 and
\* expense 0; 2024-01-01..2024-01-05 with one income of 100 on 01-03 gives
\* income [0,0,100,0,0] and an all-zero expense series.
C3_DailyBuckets ==
  (chartPc = "rendered" /\ InclusiveDays <= 45) =>
    LET c == transactionsChart
        n == InclusiveDays
    IN  /\ c.aggregationType = "daily"
        /\ Len(c.sortedKeys) = n
        /\ Len(c.labels) = n /\ Len(c.incomeData) = n /\ Len(c.expenseData) = n
        /\ \A i \in 1..n : c.sortedKeys[i] = toISODate(RangeStart + i - 1)
        /\ \A i \in 1..(n - 1) : KeyLess(c.sortedKeys[i], c.sortedKeys[i + 1])
        /\ \A i \in 1..n :
             (\A j \in 1..Len(rawData) : rawData[j].date # RangeStart + i - 1)
               => c.incomeData[i] = 0 /\ c.expenseData[i] = 0
        /\ ( /\ startDateInput = <<2024, 1, 1>>
             /\ endDateInput = <<2024, 1, 5>>
             /\ Len(rawData) = 1
             /\ rawData[1].type = "income"
             /\ rawData[1].date = DaysFromCivil(2024, 1, 3) )
           => /\ c.incomeData = <<0, 0, 100, 0, 0>>
              /\ c.expenseData = <<0, 0, 0, 0, 0>>

\* the range 2024-01-01..2024-01-05 with one income of 100 on 01-03, rendered
C3_Witness ==
  /\ chartPc = "rendered"
  /\ startDateInput = <<2024, 1, 1>>
  /\ endDateInput = <<2024, 1, 5>>
  /\ Len(rawData) = 1
  /\ rawData[1].type = "income"
  /\ rawData[1].amount = 100
  /\ rawData[1].date = DaysFromCivil(2024, 1, 3)
  /\ transactionsChart.incomeData = <<0, 0, 100, 0, 0>>

\* ---- the transaction list
\* a step in which the suspended operation o is resumed (its request settles)
Resumes(o) == userEvents' = userEvents /\ o \in ops /\ o \notin ops'
\* a step that is a click on the next or previous button
PageClick ==
  /\ userEvents'.all # userEvents.all
  /\ userEvents'.filter = userEvents.filter
  /\ userEvents'.category = userEvents.category
  /\ userEvents'.write = userEvents.write
\* a step that is a click on a filter button or a change of the category
FilterEvent ==
  \/ userEvents'.filter # userEvents.filter
  \/ userEvents'.category # userEvents.category
FetchesInFlight == {o.id : o \in {f \in ops : f.pc = "fetch"}}
\* the transactions matching the current filter, in list order
CurrentListing ==
  Listing({t \in db : Matches(t, currentFilter)}, Cardinality(db))

\* C4: every defined pageCursors[i], i >= 1, is the snapshot of the last item
\* of page i (the item at position min(10 i, length) of the filtered, ordered
\* list, page i being non-empty).  Stated for the states in which no operation
\* is in flight, where no handler is half way through rebuilding the array.
C4_CursorsArePageEnds ==
  ops = {} =>
    \A i \in 1..(Len(pageCursors) - 1) :
      LET c == pageCursors[i + 1]
      IN  c.tag # "undefined" =>
            /\ c.tag = "doc"
            /\ Len(CurrentListing) > (i - 1) * TRANSACTIONS_PER_PAGE
            /\ c.doc.id
                 = CurrentListing[Min(i * TRANSACTIONS_PER_PAGE,
                                      Len(CurrentListing))].id

\* C5: after the write of an add, delete or update has succeeded, the page
\* queries that operation goes on to issue start from no cursor or from a
\* cursor read after the write: no cursor captured before the mutation is used.
C5_NoPreMutationCursor ==
  \A o \in ops :
    (o.kind \in {"add", "delete", "update"} /\ o.pc \in {"fetch", "replay"})
      => (Truthy(o.cursor) => o.cursor.readTime >= o.writeTime)

\* C6: at most one query of fetchTransactionsForPage is in flight, isFetching
\* says whether one is, no query is issued while one is in flight, and a page
\* click that arrives meanwhile starts no operation and leaves transactions,
\* pageCursors and isFetching as they are.
C6_SingleFetch ==
  [][ /\ Cardinality(FetchesInFlight') <= 1
      /\ isFetching' <=> FetchesInFlight' # {}
      /\ isFetching => FetchesInFlight' \subseteq FetchesInFlight
      /\ (isFetching /\ PageClick)
           => /\ UNCHANGED <<transactions, pageCursors, isFetching>>
              /\ {o.id : o \in ops'} = {o.id : o \in ops} ]_vars

\* a page click was dropped: the only operation is the fetch of a page click,
\* another click came beside it and moved currentPage off the page in flight
C6_Witness ==
  \E o \in ops :
    /\ ops = {o}
    /\ o.kind = "page" /\ o.pc = "fetch"
    /\ ~o.alone
    /\ isFetching
    /\ currentPage # o.page

\* C7: after a deletion, when currentPage exceeds the recomputed totalPages,
\* currentPage becomes 1 and the first page is fetched.
C7_FallBackToFirstPage ==
  [][ \A o \in ops :
        (Resumes(o) /\ o.kind = "delete" /\ o.pc = "count"
           /\ currentPage > totalPages')
          => /\ currentPage' = 1
             /\ \E f \in ops' : f.id = o.id /\ f.pc = "fetch" /\ f.page = 1 ]_vars

\* C7 as the code has it: after a deletion and the recount, currentPage goes
\* down by one when it is above 1, the list on display held exactly one item
\* and currentPage exceeds the recomputed totalPages, and stays otherwise; the
\* cursor array restarts from [null]; the cursors of the pages before
\* currentPage are queried again, and with none to query the page is fetched,
\* unless a fetch is in flight, when the call is dropped.
C7_FallBackOnePage ==
  [][ \A o \in ops :
        (Resumes(o) /\ o.kind = "delete" /\ o.pc = "count")
          => /\ currentPage' =
                  IF currentPage > 1 /\ Len(transactions) = 1
                       /\ currentPage > totalPages'
                  THEN currentPage - 1 ELSE currentPage
             /\ pageCursors' = <<NullCursor>>
             /\ IF currentPage' > 1
                THEN \E f \in ops' : f.id = o.id /\ f.pc = "replay" /\ f.page = 1
                ELSE IF isFetching
                     THEN \A f \in ops' : f.id # o.id
                     ELSE \E f \in ops' : /\ f.id = o.id /\ f.pc = "fetch"
                                          /\ f.page = currentPage' ]_vars

\* the only item of page 3 was deleted and the list fell back to page 2
C7_Witness ==
  \E o \in ops :
    /\ o.kind = "delete" /\ o.alone
    /\ o.pc = "replay"
    /\ o.pre.currentPage = 3
    /\ Len(o.pre.transactions) = 1
    /\ currentPage = 2

\* C8: a filter change sets currentPage to 1 and the cursor array to [null],
\* and once the operations it triggered (and any that were in flight) are
\* over, no cursor obtained under another filter than the current one is in
\* pageCursors.
C8_FilterChangeInvalidates ==
  [][ /\ FilterEvent => currentPage' = 1 /\ pageCursors' = <<NullCursor>>
      /\ ops' = {} =>
           \A i \in DOMAIN pageCursors' :
             Truthy(pageCursors'[i]) => pageCursors'[i].filter = currentFilter' ]_vars

\* C9: when the count of updateTotalPages arrives, totalPages becomes the
\* number of transactions matching the current filter over 10, rounded up, and
\* 1 when none matches; when the count is rejected totalPages stays.
C9_TotalPagesOfCurrentFilter ==
  [][ \A o \in ops :
        (Resumes(o) /\ o.pc = "count")
          => IF rejects' = rejects
             THEN LET n == Cardinality({t \in db : Matches(t, currentFilter)})
                  IN  totalPages' = IF n = 0 THEN 1 ELSE (n + 9) \div 10
             ELSE totalPages' = totalPages ]_vars

\* C10: when a request of an operation started by a user event is rejected,
\* and nothing else ran beside the operation, the operation is abandoned and
\* transactions, currentPage, totalPages and pageCursors are what they were
\* before the user event.
C10_RejectRestores ==
  [][ \A o \in ops :
        (Resumes(o) /\ rejects' # rejects /\ o.alone /\ o.kind # "init")
          => /\ \A f \in ops' : f.id # o.id
             /\ transactions' = o.pre.transactions
             /\ currentPage' = o.pre.currentPage
             /\ totalPages' = o.pre.totalPages
             /\ pageCursors' = o.pre.pageCursors ]_vars

\* ---- the global summary
\* C11: from the total income I and the total expenses E of the collection,
\* updateGlobalSummary shows net profit I - E, a tax reserve of a quarter of
\* I, recommended savings of a fifth of the net profit, or 0 when that is
\* negative (so never negative), and safe-to-spend = net profit - tax reserve
\* - recommended savings.  The figures are in hundredths.
C11_SummaryFigures ==
  summaryUI # NoSummary =>
    LET I == 100 * SumAmounts({t \in db : t.type = "income"})
        E == 100 * SumAmounts({t \in db : t.type = "expense"})
        u == summaryUI
    IN  /\ u.totalIncome = I /\ u.totalExpenses = E
        /\ u.netProfit = I - E
        /\ 4 * u.taxToSave = I
        /\ u.recommendedSavings >= 0
        /\ 5 * u.recommendedSavings = (IF I - E > 0 THEN I - E ELSE 0)
        /\ u.availableBalance = u.netProfit - u.taxToSave - u.recommendedSavings

\* a loss with some income: the savings are floored at 0, the reserve is not
C11_Witness ==
  /\ summaryUI # NoSummary
  /\ summaryUI.netProfit < 0
  /\ summaryUI.recommendedSavings = 0
  /\ summaryUI.taxToSave > 0
  /\ summaryUI.availableBalance < summaryUI.netProfit

\* ---- the AI summary
\* the expense categories of the data given to generateAISummary, the total of
\* each, where each is first met, and those with the largest total
ExpenseCategories(data) ==
  {data[i].category : i \in {j \in 1..Len(data) : data[j].type = "expense"}}
CategoryTotal(data, c) ==
  SumSeq([i \in 1..Len(data) |->
            IF data[i].type = "expense" /\ data[i].category = c
            THEN data[i].amount ELSE 0])
FirstMet(data, c) ==
  CHOOSE i \in 1..Len(data) :
    /\ data[i].type = "expense" /\ data[i].category = c
    /\ \A j \in 1..(i - 1) : ~(data[j].type = "expense" /\ data[j].category = c)
LargestCategories(data) ==
  {c \in ExpenseCategories(data) :
     \A d \in ExpenseCategories(data) : CategoryTotal(data, c) >= CategoryTotal(data, d)}

\* C12: the category the prompt reports as the largest expense category is one
\* with the largest total, and when several share it, the first of them in
\* the iteration order of the per-category totals; with no expenses it is
\* "None".
C12_FirstOfTied ==
  \A o \in aiOps :
    LET reported == o.prompt.largestExpenseCategory
        largest == LargestCategories(o.rawData)
    IN  IF ExpenseCategories(o.rawData) = {} THEN reported = "None"
        ELSE /\ reported \in largest
             /\ \A d \in largest :
                  FirstMet(o.rawData, reported) <= FirstMet(o.rawData, d)

\* C12 as the code has it: the reduce keeps its accumulator only when its total
\* is strictly larger, so of several categories sharing the largest total the
\* last in the iteration order is reported; with no expenses it is "None".
C12_LastOfTied ==
  \A o \in aiOps :
    LET reported == o.prompt.largestExpenseCategory
        largest == LargestCategories(o.rawData)
    IN  IF ExpenseCategories(o.rawData) = {} THEN reported = "None"
        ELSE /\ reported \in largest
             /\ \A d \in largest :
                  FirstMet(o.rawData, reported) >= FirstMet(o.rawData, d)

\* a summary is being generated for data in which two categories share the
\* largest total, and the category met second is the one reported
C12_Witness ==
  \E o \in aiOps :
    /\ Cardinality(LargestCategories(o.rawData)) = 2
    /\ \E d \in LargestCategories(o.rawData) :
         FirstMet(o.rawData, d) < FirstMet(o.rawData, o.prompt.largestExpenseCategory)

\* C13: an invocation of generateAISummary sends at most one request and none
\* is sent later on its behalf; without an API key it sends none and shows the
\* missing-key message; with one it ends showing the returned text, or the
\* failure message on a non-2xx status, a rejected call or a malformed body;
\* and the loading marker is cleared when it ends.
C13_OneRequestThenTextOrFailure ==
  [][ /\ aiInvocations' = aiInvocations + 1 =>
           IF GEMINI_API_KEY = ""
           THEN /\ aiRequests' = aiRequests
                /\ aiOps' = aiOps
                /\ aiSummaryContent' = [textContent |-> MissingKeyMessage,
                                        loading |-> FALSE]
           ELSE aiRequests' = aiRequests + 1
      /\ aiInvocations' = aiInvocations => aiRequests' = aiRequests
      /\ aiRequests' <= aiInvocations'
      /\ \A o \in aiOps :
           (\A f \in aiOps' : f.id # o.id)
             => /\ aiSummaryContent'.loading = FALSE
                /\ aiSummaryContent'.textContent \in {AiText, FailureMessage} ]_vars

\* ---- the list at rest
\* C14: once no operation is in flight, after any clicks, filter changes,
\* adds, deletes and updates, issued at any moment, the list on display is
\* exactly page currentPage of the transactions matching the current filter,
\* and the page number shown is currentPage.  Stated for the runs in which no
\* request is rejected.
C14_DisplayedIsCurrentPage ==
  (ops = {} /\ rejects = 0) =>
    LET before == (currentPage - 1) * TRANSACTIONS_PER_PAGE
        left == Len(CurrentListing) - before
    IN  /\ paginationUI.page = currentPage
        /\ Len(transactions)
             = (IF left < 0 THEN 0 ELSE Min(TRANSACTIONS_PER_PAGE, left))
        /\ \A i \in 1..Len(transactions) :
             before + i <= Len(CurrentListing)
               /\ transactions[i] = CurrentListing[before + i]

\* C15: in every state in which no operation is in flight,
\* 1 <= currentPage <= totalPages.  Stated for the runs in which no request is
\* rejected.
C15_CurrentPageInRange ==
  (ops = {} /\ rejects = 0) => (1 <= currentPage /\ currentPage <= totalPages)

\* ---- overlapping updateChart() calls
\* C16: once every updateChart invocation has completed, the chart on display
\* is the chart of the range the inputs hold (the range selected last, when it
\* is a valid one), drawn from what the query of that range returns, or from
\* no data when that query was rejected.
C16_LatestRangeShown ==
  (chartOps = {} /\ chartPc \notin {"closed", "idle"}
     /\ ~KeyLess(endDateInput, startDateInput))
    => /\ rawData \in {fetchChartData(db, startDateInput, endDateInput), <<>>}
       /\ transactionsChart
            = processChartData(rawData, startDateInput, endDateInput)

====
